---- MODULE Spec2Model ----
(***************************************************************************)
(* RenewDSL parsing engine (src/parser/parser.py, src/parser/ast_nodes.py). *)
(*                                                                         *)
(* Three specifications share the definitions below:                       *)
(*   SpecPre        IndentPreprocessor.process, statement by statement,    *)
(*                  over arbitrary sequences of input lines;               *)
(*   SpecTransform  RenewDSLTransformer applied bottom-up to the parse     *)
(*                  tree the grammar yields for a document;                *)
(*   Spec           parse(dsl_text) end to end.                            *)
(*                                                                         *)
(* A line of text is a record [lead, body]: lead is the number of leading  *)
(* space characters, body what follows them (a record with a field form;   *)
(* form "blank" when nothing but whitespace is on the line).  Indentation  *)
(* is made of space characters only.                                       *)
(***************************************************************************)
EXTENDS Integers, Sequences, FiniteSets, TLC

VARIABLES
    lines,          \* IndentPreprocessor.lines
    pos,            \* index of the line the loop of process() is at
    indent_stack,   \* IndentPreprocessor.indent_stack
    output,         \* IndentPreprocessor.output
    pc,             \* where the program is
    result,         \* what the operation returned or raised
    doc,            \* the document being parsed
    frames,         \* the transformer's recursion: trees being transformed
    model,          \* RenewDSLTransformer.model
    last            \* the last callback called: its rule, arguments, outcome

vars == <<lines, pos, indent_stack, output, pc, result, doc, frames, model, last>>
preVars == <<lines, pos, indent_stack, output>>
trVars == <<doc, frames, model, last>>

\* ------------------------------------------------------------------ bounds
MaxLines == 3
MaxIndent == 3

\* ------------------------------------------------------------ text lines
Blank == [form |-> "blank"]
Text == [form |-> "text"]

Line(w, b) == [lead |-> w, body |-> b]

\* `not line.strip()`
IsBlank(line) == line.body.form = "blank"

\* `len(line) - len(line.lstrip())`
IndentOf(line) == line.lead

\* An element of self.output: a text line with `indents` block-start markers
\* in front of `lead` spaces and the body, or a line holding one block-end
\* marker.
OutLine(k, w, b) == [kind |-> "line", indents |-> k, lead |-> w, body |-> b]
EmptyLine == OutLine(0, 0, Blank)
DEDENT == [kind |-> "dedent", indents |-> 0, lead |-> 0, body |-> Blank]
Unchanged(line) == OutLine(0, line.lead, line.body)

\* `line.replace(' ' * indent, '<INDENT>' * n, 1)`: the first run of `indent`
\* spaces of the line is its leading whitespace, which the markers replace.
ReplaceLead(line, n) == OutLine(n, 0, line.body)

Top(stack) == stack[Len(stack)]
Pop(stack) == SubSeq(stack, 1, Len(stack) - 1)

\* ------------------------------------------- IndentPreprocessor.process
\* The number of markers written in front of a line that opens a block.
IndentMarkers(stack) == Len(stack) - 1

CurLine == lines[pos]
InLoop == pc = "loop" /\ pos <= Len(lines)

ProcessBlank ==
    /\ InLoop
    /\ IsBlank(CurLine)
    /\ output' = Append(output, EmptyLine)
    /\ pos' = pos + 1
    /\ UNCHANGED <<lines, indent_stack, pc, result, trVars>>

ProcessIndent ==
    /\ InLoop
    /\ ~IsBlank(CurLine)
    /\ IndentOf(CurLine) > Top(indent_stack)
    /\ indent_stack' = Append(indent_stack, IndentOf(CurLine))
    /\ output' = Append(output, ReplaceLead(CurLine, IndentMarkers(indent_stack')))
    /\ pos' = pos + 1
    /\ UNCHANGED <<lines, pc, result, trVars>>

\* A variant of the dedent loop that also pops a level equal to the width.
ProcessDedentPopEqual ==
    /\ pc \in {"loop", "dedent"}
    /\ pos <= Len(lines)
    /\ ~IsBlank(CurLine)
    /\ Len(indent_stack) > 0
    /\ IndentOf(CurLine) <= Top(indent_stack)
    /\ indent_stack' = Pop(indent_stack)
    /\ output' = Append(output, DEDENT)
    /\ pc' = "dedent"
    /\ UNCHANGED <<lines, pos, result, trVars>>

\* One iteration of `while self.indent_stack and indent < self.indent_stack[-1]`.
ProcessDedentPop ==
    /\ pc \in {"loop", "dedent"}
    /\ pos <= Len(lines)
    /\ ~IsBlank(CurLine)
    /\ Len(indent_stack) > 0
    /\ IndentOf(CurLine) < Top(indent_stack)
    /\ indent_stack' = Pop(indent_stack)
    /\ output' = Append(output, DEDENT)
    /\ pc' = "dedent"
    /\ UNCHANGED <<lines, pos, result, trVars>>

\* The while loop of the dedent branch is left: the line itself is emitted.
ProcessDedentLine ==
    /\ pc = "dedent"
    /\ Len(indent_stack) = 0 \/ IndentOf(CurLine) >= Top(indent_stack)
    /\ output' = Append(output, Unchanged(CurLine))
    /\ pos' = pos + 1
    /\ pc' = "loop"
    /\ UNCHANGED <<lines, indent_stack, result, trVars>>

ProcessSame ==
    /\ InLoop
    /\ ~IsBlank(CurLine)
    /\ IndentOf(CurLine) = Top(indent_stack)
    /\ output' = Append(output, Unchanged(CurLine))
    /\ pos' = pos + 1
    /\ UNCHANGED <<lines, indent_stack, pc, result, trVars>>

\* A variant of the closing loop that runs while the stack is non-empty.
CloseIndentAll ==
    /\ pc = "loop"
    /\ pos > Len(lines)
    /\ Len(indent_stack) > 0
    /\ indent_stack' = Pop(indent_stack)
    /\ output' = Append(output, DEDENT)
    /\ UNCHANGED <<lines, pos, pc, result, trVars>>

\* One iteration of `while len(self.indent_stack) > 1` after the last line.
CloseIndent ==
    /\ pc = "loop"
    /\ pos > Len(lines)
    /\ Len(indent_stack) > 1
    /\ indent_stack' = Pop(indent_stack)
    /\ output' = Append(output, DEDENT)
    /\ UNCHANGED <<lines, pos, pc, result, trVars>>

\* `return '\n'.join(self.output)`
ProcessReturn ==
    /\ pc = "loop"
    /\ pos > Len(lines)
    /\ Len(indent_stack) <= 1
    /\ pc' = "done"
    /\ result' = [tag |-> "text", lines |-> output]
    /\ UNCHANGED <<lines, pos, indent_stack, output, trVars>>

NoResult == [tag |-> "none"]

\* Input lines of the preprocessor: any text of at most MaxLines lines.
PreLines == {Line(w, b) : w \in 0..MaxIndent, b \in {Blank, Text}}
SeqsUpTo(S, n) == UNION {[1..k -> S] : k \in 1..n}

InitPre ==
    /\ lines \in SeqsUpTo(PreLines, MaxLines)
    /\ pos = 1
    /\ indent_stack = <<0>>
    /\ output = <<>>
    /\ pc = "loop"
    /\ result = NoResult
    /\ doc = <<>>
    /\ frames = <<>>
    /\ model = [tag |-> "None"]
    /\ last = [rule |-> "", items |-> <<>>, ret |-> [tag |-> "None"]]

NextPre ==
    \/ ProcessBlank
    \/ ProcessIndent
    \/ ProcessDedentPop
    \/ ProcessDedentLine
    \/ ProcessSame
    \/ CloseIndent
    \/ ProcessReturn

SpecPre == InitPre /\ [][NextPre]_vars


\* --------------------------------------------------- documents (grammar)
\* The concrete syntax of a document, as the GRAMMAR string reads it.
\* A numeric literal (NUMBER) is the pair of its digits before the point and
\* its first digit after it.
Num(whole, tenth) == [whole |-> whole, tenth |-> tenth]

\* The literals on the right of an attribute's colon.
CoordinateLit(n1, h1, n2, h2) ==
    [lit |-> "coordinate", n1 |-> n1, h1 |-> h1, n2 |-> n2, h2 |-> h2]
QuantityLit(n, u) == [lit |-> "quantity", n |-> n, unit |-> u]
NumberLit(n) == [lit |-> "number", n |-> n]
StringLit(s) == [lit |-> "string", text |-> s]
RefLit(name) == [lit |-> "equipment_ref", name |-> name, counted |-> FALSE, n |-> Num(0, 0)]
RefTimesLit(name, n) == [lit |-> "equipment_ref", name |-> name, counted |-> TRUE, n |-> n]
OrientationLit(w) == [lit |-> "orientation", word |-> w]
AngleLit(n) == [lit |-> "angle", n |-> n]
TrackingLit(w) == [lit |-> "tracking_mode", word |-> w]
WeatherLit(name, args) == [lit |-> "weather_source", name |-> name, args |-> args]
DurationLit(n, u) == [lit |-> "duration", n |-> n, unit |-> u]
OutputListLit(names) == [lit |-> "output_list", names |-> names]
VariableListLit(names) == [lit |-> "variable_list", names |-> names]
ObjectiveLit(mode, target) == [lit |-> "objective_expr", mode |-> mode, target |-> target]
NoLit == [lit |-> "none"]

\* One line `key: value` of a block, or one equipment item `type "name"` with
\* the lines of its spec block (none: the item has no spec block).
Entry(key, val) == [key |-> key, val |-> val, specs |-> <<>>]
Item(type, name, specs) == [key |-> type, val |-> StringLit(name), specs |-> specs]

\* One top-level block.
Statement(sec, name, body) == [sec |-> sec, name |-> name, body |-> body]

Sections == {"site", "equipment", "layout", "simulate", "optimize"}

\* The production each attribute keyword of a block is followed by.
AttrLit(sec) ==
    CASE sec = "site" ->
           [location |-> "coordinate", area |-> "quantity", terrain |-> "string",
            irradiance |-> "quantity", elevation |-> "quantity"]
      [] sec = "layout" ->
           [panels |-> "equipment_ref", inverters |-> "equipment_ref",
            orientation |-> "orientation", tilt |-> "angle",
            row_spacing |-> "quantity", tracking |-> "tracking_mode"]
      [] sec = "simulate" ->
           [weather |-> "weather_source", duration |-> "duration",
            timestep |-> "duration", outputs |-> "output_list"]
      [] sec = "optimize" ->
           [objective |-> "objective_expr", variables |-> "variable_list",
            algorithm |-> "string"]
      [] sec = "equipment" ->
           [panel |-> "string", inverter |-> "string", turbine |-> "string",
            battery |-> "string"]

SpecLits == {"quantity", "number", "string"}

\* A line of a block matches one alternative of the block's attribute rule.
EntryMatches(sec, e) ==
    /\ e.key \in DOMAIN AttrLit(sec)
    /\ e.val.lit = AttrLit(sec)[e.key]
    /\ sec # "equipment" => e.specs = <<>>
    /\ \A i \in DOMAIN e.specs : e.specs[i].val.lit \in SpecLits

\* A document derivable from `start`.
MatchesGrammar(d) ==
    /\ Len(d) >= 1
    /\ \A i \in DOMAIN d :
         /\ d[i].sec \in Sections
         /\ Len(d[i].body) >= 1
         /\ \A j \in DOMAIN d[i].body : EntryMatches(d[i].sec, d[i].body[j])

\* ------------------------------------------------------- parse trees
\* What the parser hands to the transformer: Tree(data, children), the
\* children being trees and tokens.  Only named terminals whose name does not
\* start with an underscore are kept as children; the keywords and the
\* punctuation written as string literals in the rules ("site", ":", "N",
\* "south", "kW", ...) and _NL, _INDENT, _DEDENT are filtered out.
Tree(data, children) == [tag |-> "Tree", data |-> data, children |-> children]
NUMBERToken(n) == [tag |-> "Token", type |-> "NUMBER", whole |-> n.whole, tenth |-> n.tenth]
NAMEToken(s) == [tag |-> "Token", type |-> "NAME", text |-> s]
\* The token's text is `text` between two double quotes.
ESCAPED_STRINGToken(s) == [tag |-> "Token", type |-> "ESCAPED_STRING", text |-> s]

MapSeq(F(_), s) == [i \in DOMAIN s |-> F(s[i])]

string_rule(s) == Tree("string", <<ESCAPED_STRINGToken(s)>>)

\* quantity: NUMBER unit, duration: NUMBER unit; unit is a choice of string
\* literals, so its tree has no children.
unit_rule == Tree("unit", <<>>)

\* The subtree of the literal on the right of a colon.
ValueTree(v) ==
    CASE v.lit = "coordinate" ->
           Tree("coordinate", <<NUMBERToken(v.n1), Tree("direction_ns", <<>>),
                                NUMBERToken(v.n2), Tree("direction_ew", <<>>)>>)
      [] v.lit = "quantity" -> Tree("quantity", <<NUMBERToken(v.n), unit_rule>>)
      [] v.lit = "number" -> NUMBERToken(v.n)
      [] v.lit = "string" -> string_rule(v.text)
      [] v.lit = "equipment_ref" ->
           Tree("equipment_ref",
                IF v.counted THEN <<NAMEToken(v.name), NUMBERToken(v.n)>>
                ELSE <<NAMEToken(v.name)>>)
      [] v.lit = "orientation" -> Tree("orientation", <<>>)
      [] v.lit = "angle" -> Tree("angle", <<NUMBERToken(v.n)>>)
      [] v.lit = "tracking_mode" -> Tree("tracking_mode", <<>>)
      [] v.lit = "weather_source" ->
           Tree("weather_source", <<NAMEToken(v.name)>> \o MapSeq(string_rule, v.args))
      [] v.lit = "duration" -> Tree("duration", <<NUMBERToken(v.n), unit_rule>>)
      [] v.lit = "output_list" -> Tree("output_list", MapSeq(NAMEToken, v.names))
      [] v.lit = "variable_list" -> Tree("variable_list", MapSeq(NAMEToken, v.names))
      [] v.lit = "objective_expr" -> Tree("objective_expr", <<NAMEToken(v.target)>>)

\* equipment_spec: NAME ":" (quantity | NUMBER | string) _NL
equipment_spec_rule(e) == Tree("equipment_spec", <<NAMEToken(e.key), ValueTree(e.val)>>)

\* site_attr, layout_attr, simulate_attr, optimize_attr: keyword ":" value _NL
attr_rule(sec, e) == Tree(sec \o "_attr", <<ValueTree(e.val)>>)

\* equipment_item: equipment_type string spec_block? _NL
equipment_item_rule(e) ==
    Tree("equipment_item",
         <<Tree("equipment_type", <<>>), string_rule(e.val.text)>>
         \o (IF e.specs = <<>> THEN <<>>
             ELSE <<Tree("spec_block", MapSeq(equipment_spec_rule, e.specs))>>))

\* site_def, equipment_section, layout_def, simulate_def, optimize_def
SectionTree(st) ==
    LET attrs == [j \in DOMAIN st.body |-> attr_rule(st.sec, st.body[j])] IN
    CASE st.sec = "site" -> Tree("site_def", <<string_rule(st.name)>> \o attrs)
      [] st.sec = "layout" -> Tree("layout_def", <<string_rule(st.name)>> \o attrs)
      [] st.sec = "simulate" -> Tree("simulate_def", attrs)
      [] st.sec = "optimize" -> Tree("optimize_def", attrs)
      [] st.sec = "equipment" ->
           Tree("equipment_section", MapSeq(equipment_item_rule, st.body))

statement_rule(st) == Tree("statement", <<SectionTree(st)>>)

\* ?start: statement+  -- a rule marked `?` that has a single child is
\* replaced by that child.
start_rule(d) ==
    IF Len(d) = 1 THEN statement_rule(d[1])
    ELSE Tree("start", MapSeq(statement_rule, d))

\* ------------------------------------------------------ Python values
\* Every value carries its type in the field tag.  A float is its value in
\* tenths.
None_ == [tag |-> "None"]
Float(v) == [tag |-> "float", v |-> v]
IntVal(v) == [tag |-> "int", v |-> v]
Str(s) == [tag |-> "str", s |-> s]
Tuple(k, v) == [tag |-> "tuple", k |-> k, v |-> v]
List(items) == [tag |-> "list", items |-> items]
Dict(f) == [tag |-> "dict", map |-> f]
EmptyDict == Dict([k \in {} |-> None_])

\* An exception raised inside a callback reaches the caller of transform()
\* as VisitError(rule, orig_exc).
VisitError(rule, exc) == [tag |-> "error", exc |-> exc, rule |-> rule]
IsError(x) == x.tag = "error"

\* `a == b` on Python values; values of different types are not equal.
PyEq(a, b) == a.tag = b.tag /\ a = b

\* bool(x)
Truthy(x) ==
    CASE x.tag = "None" -> FALSE
      [] x.tag = "float" -> x.v # 0
      [] x.tag = "int" -> x.v # 0
      [] x.tag = "str" -> x.s # ""
      [] x.tag = "list" -> x.items # <<>>
      [] OTHER -> TRUE

\* float(x) of a NUMBER token or of a float
PyFloat(x) ==
    IF x.tag = "Token" THEN Float(10 * x.whole + x.tenth) ELSE x

\* int(x) of a float: truncation toward zero
PyInt(x) == IntVal(IF x.v >= 0 THEN x.v \div 10 ELSE -((-x.v) \div 10))

FloatText(x) ==
    (IF x.v < 0 THEN "-" ELSE "")
    \o ToString((IF x.v < 0 THEN -x.v ELSE x.v) \div 10)
    \o "." \o ToString((IF x.v < 0 THEN -x.v ELSE x.v) % 10)

\* str(x) and the `{x}` of an f-string
PyStr(x) ==
    CASE x.tag = "str" -> x
      [] x.tag = "Token" /\ x.type = "NAME" -> Str(x.text)
      [] x.tag = "float" -> Str(FloatText(x))
      [] x.tag = "Tree" ->
           Str("Tree(Token('RULE', '" \o x.data \o "'), ["
               \o (IF x.children = <<>> THEN "" ELSE "...") \o "])")
      [] OTHER -> Str("<" \o x.tag \o ">")

\* dict(items): a later pair replaces an earlier pair with the same key.
Last(S) == CHOOSE i \in S : \A j \in S : j <= i
PyDict(items) ==
    Dict([key \in {items[i].k.s : i \in DOMAIN items} |->
            items[Last({i \in DOMAIN items : items[i].k.s = key})].v])

\* d.get(key), d.get(key, default)
GetOr(d, key, default) == IF key \in DOMAIN d.map THEN d.map[key] ELSE default
Get(d, key) == GetOr(d, key, None_)

\* ----------------------------------------------------- ast_nodes.py
Coordinate(lat, lon) == [tag |-> "Coordinate", latitude |-> lat, longitude |-> lon]
Quantity(value, unit) == [tag |-> "Quantity", value |-> value, unit |-> unit]
Site(name, location, area, terrain, irradiance, elevation) ==
    [tag |-> "Site", name |-> name, location |-> location, area |-> area,
     terrain |-> terrain, irradiance |-> irradiance, elevation |-> elevation]
Equipment(type, name, specs) ==
    [tag |-> "Equipment", type |-> type, name |-> name, from_catalog |-> FALSE,
     specs |-> IF specs.tag = "None" THEN EmptyDict ELSE specs]
EquipmentRef(name, count) == [tag |-> "EquipmentRef", name |-> name, count |-> count]
Layout(name, panels, inverters, orientation, tilt, row_spacing, tracking) ==
    [tag |-> "Layout", name |-> name, panels |-> panels, inverters |-> inverters,
     turbines |-> None_, orientation |-> orientation, tilt |-> tilt,
     row_spacing |-> row_spacing, tracking |-> tracking, count |-> None_]
WeatherSource(provider, args) ==
    [tag |-> "WeatherSource", provider |-> provider, args |-> args]
DefaultOutputs == List(<<Str("generation"), Str("capacity_factor")>>)
Simulation(weather, duration, timestep, outputs) ==
    [tag |-> "Simulation", weather |-> weather, duration |-> duration,
     timestep |-> timestep,
     outputs |-> IF outputs.tag = "None" THEN DefaultOutputs ELSE outputs]
Objective(mode, target) == [tag |-> "Objective", mode |-> mode, target |-> target]
Optimization(objective, variables, algorithm) ==
    [tag |-> "Optimization", objective |-> objective,
     variables |-> IF variables.tag = "None" THEN List(<<>>) ELSE variables,
     constraints |-> List(<<>>), algorithm |-> algorithm]
TrackingModes == {"fixed", "single_axis", "dual_axis"}
TrackingMode(value) == [tag |-> "TrackingMode", value |-> value]
\* Model(): equipment and layouts are the sequences of their items.
Model ==
    [tag |-> "Model", site |-> None_, equipment |-> <<>>, layouts |-> <<>>,
     simulation |-> None_, optimization |-> None_]

\* ------------------------------------------- RenewDSLTransformer callbacks
\* A callback receives `items`, the transformed children of its tree, and
\* returns a value or an exception.  A callback declared
\* @v_args(inline=True) is called as f(*items): a number of children its
\* signature does not take raises TypeError.
Raise(exc) == [tag |-> "raise", exc |-> exc]
Raised(x) == x.tag = "raise"

string(items) ==
    IF Len(items) # 1 THEN Raise("TypeError") ELSE Str(items[1].text)

NUMBER(n) == PyFloat(n)

NAME(n) == PyStr(n)

coordinate(items) ==
    IF Len(items) # 4 THEN Raise("TypeError")
    ELSE LET lat == items[1]
             ns == items[2]
             lon == items[3]
             ew == items[4]
             lat_val == IF PyEq(ns, Str("N")) THEN lat ELSE Float(-lat.v)
             lon_val == IF PyEq(ew, Str("E")) THEN lon ELSE Float(-lon.v)
         IN Coordinate(lat_val, lon_val)

quantity(items) ==
    IF Len(items) # 2 THEN Raise("TypeError")
    ELSE Quantity(items[1], PyStr(items[2]))

angle(items) ==
    IF Len(items) # 1 THEN Raise("TypeError") ELSE PyFloat(items[1])

duration(items) ==
    IF Len(items) # 2 THEN Raise("TypeError")
    ELSE Str(PyStr(items[1]).s \o PyStr(items[2]).s)

\* site_attr, layout_attr, simulate_attr, optimize_attr (the same body):
\*   attr_name = items[0].data; value = items[1]; return (attr_name, value)
attr_callback(items) ==
    IF Len(items) < 1 THEN Raise("IndexError")
    ELSE IF items[1].tag # "Tree" THEN Raise("AttributeError")
    ELSE IF Len(items) < 2 THEN Raise("IndexError")
    ELSE Tuple(Str(items[1].data), items[2])

site_attr(items) == attr_callback(items)
layout_attr(items) == attr_callback(items)
simulate_attr(items) == attr_callback(items)
optimize_attr(items) == attr_callback(items)

AllTuples(items) == \A i \in DOMAIN items : items[i].tag = "tuple"
Rest(items) == SubSeq(items, 2, Len(items))

site_def(items) ==
    IF Len(items) < 1 THEN Raise("IndexError")
    ELSE IF ~AllTuples(Rest(items)) THEN Raise("TypeError")
    ELSE LET name == items[1]
             attrs == PyDict(Rest(items))
         IN Site(name, Get(attrs, "location"), Get(attrs, "area"),
                 Get(attrs, "terrain"), Get(attrs, "irradiance"),
                 Get(attrs, "elevation"))

equipment_type(items) ==
    IF Len(items) # 1 THEN Raise("TypeError") ELSE PyStr(items[1])

equipment_spec(items) ==
    IF Len(items) < 2 THEN Raise("IndexError")
    ELSE Tuple(PyStr(items[1]), items[2])

spec_block(items) ==
    IF ~AllTuples(items) THEN Raise("TypeError") ELSE PyDict(items)

equipment_item(items) ==
    IF Len(items) < 2 THEN Raise("IndexError")
    ELSE Equipment(items[1], items[2],
                   IF Len(items) > 2 THEN items[3] ELSE EmptyDict)

equipment_section(items) == List(items)

\* The count given to EquipmentRef: `int(count) if count else None`.
RefCount(count) == IF Truthy(count) THEN PyInt(count) ELSE None_

equipment_ref(items) ==
    IF Len(items) < 1 \/ Len(items) > 2 THEN Raise("TypeError")
    ELSE EquipmentRef(items[1],
                      RefCount(IF Len(items) = 2 THEN items[2] ELSE None_))

tracking_mode(items) ==
    IF Len(items) # 1 THEN Raise("TypeError")
    ELSE IF PyStr(items[1]).s \notin TrackingModes THEN Raise("ValueError")
    ELSE TrackingMode(PyStr(items[1]).s)

layout_def(items) ==
    IF Len(items) < 1 THEN Raise("IndexError")
    ELSE IF ~AllTuples(Rest(items)) THEN Raise("TypeError")
    ELSE LET name == items[1]
             attrs == PyDict(Rest(items))
         IN Layout(name, Get(attrs, "panels"), Get(attrs, "inverters"),
                   Get(attrs, "orientation"), Get(attrs, "tilt"),
                   Get(attrs, "row_spacing"), Get(attrs, "tracking"))

weather_source(items) ==
    IF Len(items) < 1 THEN Raise("IndexError")
    ELSE WeatherSource(items[1], List(Rest(items)))

output_list(items) == List(MapSeq(PyStr, items))

simulate_def(items) ==
    IF ~AllTuples(items) THEN Raise("TypeError")
    ELSE LET attrs == PyDict(items)
         IN Simulation(Get(attrs, "weather"), Get(attrs, "duration"),
                       Get(attrs, "timestep"), Get(attrs, "outputs"))

objective_expr(items) ==
    IF Len(items) # 2 THEN Raise("TypeError")
    ELSE Objective(PyStr(items[1]), PyStr(items[2]))

variable_list(items) == List(MapSeq(PyStr, items))

optimize_def(items) ==
    IF ~AllTuples(items) THEN Raise("TypeError")
    ELSE LET attrs == PyDict(items)
         IN Optimization(Get(attrs, "objective"), Get(attrs, "variables"),
                         GetOr(attrs, "algorithm", Str("gradient")))

statement(items) ==
    IF Len(items) < 1 THEN Raise("IndexError") ELSE items[1]

\* start returns self.model.
start(items, m) == m

\* The value a rule's callback returns; a rule without a callback
\* (direction_ns, direction_ew, unit, orientation) keeps its tree.
Callback(rule, items, m) ==
    CASE rule = "string" -> string(items)
      [] rule = "coordinate" -> coordinate(items)
      [] rule = "quantity" -> quantity(items)
      [] rule = "angle" -> angle(items)
      [] rule = "duration" -> duration(items)
      [] rule = "site_attr" -> site_attr(items)
      [] rule = "site_def" -> site_def(items)
      [] rule = "equipment_type" -> equipment_type(items)
      [] rule = "equipment_spec" -> equipment_spec(items)
      [] rule = "spec_block" -> spec_block(items)
      [] rule = "equipment_item" -> equipment_item(items)
      [] rule = "equipment_section" -> equipment_section(items)
      [] rule = "equipment_ref" -> equipment_ref(items)
      [] rule = "tracking_mode" -> tracking_mode(items)
      [] rule = "layout_attr" -> layout_attr(items)
      [] rule = "layout_def" -> layout_def(items)
      [] rule = "weather_source" -> weather_source(items)
      [] rule = "output_list" -> output_list(items)
      [] rule = "simulate_attr" -> simulate_attr(items)
      [] rule = "simulate_def" -> simulate_def(items)
      [] rule = "objective_expr" -> objective_expr(items)
      [] rule = "variable_list" -> variable_list(items)
      [] rule = "optimize_attr" -> optimize_attr(items)
      [] rule = "optimize_def" -> optimize_def(items)
      [] rule = "statement" -> statement(items)
      [] rule = "start" -> start(items, m)
      [] OTHER -> Tree(rule, items)

\* self.model after the callback of `rule` returned `ret`.
ModelAfter(rule, ret, m) ==
    IF Raised(ret) THEN m
    ELSE CASE rule = "site_def" -> [m EXCEPT !.site = ret]
           [] rule = "equipment_item" ->
                [m EXCEPT !.equipment = Append(m.equipment, ret)]
           [] rule = "layout_def" -> [m EXCEPT !.layouts = Append(m.layouts, ret)]
           [] rule = "simulate_def" -> [m EXCEPT !.simulation = ret]
           [] rule = "optimize_def" -> [m EXCEPT !.optimization = ret]
           [] OTHER -> m

\* The callback of a token: NUMBER and NAME have one, the others stay tokens.
TokenCallback(tok) ==
    CASE tok.type = "NUMBER" -> NUMBER(tok)
      [] tok.type = "NAME" -> NAME(tok)
      [] OTHER -> tok

\* ------------------------------------------ Transformer.transform(tree)
\* The children of a tree are transformed from left to right, then the
\* tree's callback is called with the results.  A frame is a tree whose
\* children are being transformed and the results obtained so far.
Frame(node) == [node |-> node, done |-> <<>>]
TopFrame == frames[Len(frames)]
NextChild == TopFrame.node.children[Len(TopFrame.done) + 1]
HasNextChild == Len(TopFrame.done) < Len(TopFrame.node.children)
Transforming == pc = "transform" /\ frames # <<>>

NoCall == [rule |-> "", items |-> <<>>, ret |-> None_]

WithDone(fs, v) ==
    [fs EXCEPT ![Len(fs)] = [@ EXCEPT !.done = Append(@, v)]]

VisitToken ==
    /\ Transforming
    /\ HasNextChild
    /\ NextChild.tag = "Token"
    /\ frames' = WithDone(frames, TokenCallback(NextChild))
    /\ UNCHANGED <<preVars, pc, result, doc, model, last>>

Descend ==
    /\ Transforming
    /\ HasNextChild
    /\ NextChild.tag = "Tree"
    /\ frames' = Append(frames, Frame(NextChild))
    /\ UNCHANGED <<preVars, pc, result, doc, model, last>>

CallUserFunc ==
    /\ Transforming
    /\ ~HasNextChild
    /\ LET rule == TopFrame.node.data
           items == TopFrame.done
           ret == Callback(rule, items, model)
       IN /\ last' = [rule |-> rule, items |-> items, ret |-> ret]
          /\ model' = ModelAfter(rule, ret, model)
          /\ IF Raised(ret)
             THEN /\ pc' = "raised"
                  /\ result' = VisitError(rule, ret.exc)
                  /\ frames' = frames
             ELSE IF Len(frames) = 1
             THEN /\ pc' = "done"
                  /\ result' = ret
                  /\ frames' = <<>>
             ELSE /\ frames' = WithDone(Pop(frames), ret)
                  /\ UNCHANGED <<pc, result>>
    /\ UNCHANGED <<preVars, doc>>

\* transform(tree) in one piece: the value returned, or the VisitError
\* raised, and self.model afterwards.
RECURSIVE TransformTree(_, _), TransformChildren(_, _, _, _)
TransformTree(t, m) ==
    LET c == TransformChildren(t.children, 1, <<>>, m) IN
    IF c.raised THEN [ret |-> c.error, model |-> c.model]
    ELSE LET ret == Callback(t.data, c.done, c.model) IN
         [ret |-> IF Raised(ret) THEN VisitError(t.data, ret.exc) ELSE ret,
          model |-> ModelAfter(t.data, ret, c.model)]

TransformChildren(children, i, done, m) ==
    IF i > Len(children)
    THEN [raised |-> FALSE, done |-> done, error |-> None_, model |-> m]
    ELSE IF children[i].tag = "Token"
    THEN TransformChildren(children, i + 1,
                           Append(done, TokenCallback(children[i])), m)
    ELSE LET r == TransformTree(children[i], m) IN
         IF IsError(r.ret)
         THEN [raised |-> TRUE, done |-> done, error |-> r.ret, model |-> r.model]
         ELSE TransformChildren(children, i + 1, Append(done, r.ret), r.model)

\* transformer = RenewDSLTransformer(); transformer.transform(tree)
transform(tree) == TransformTree(tree, Model).ret

\* ------------------------------------------------------------ documents
MaxDocLines == 5

SiteEntries ==
    {Entry("location", CoordinateLit(Num(10, 0), "N", Num(20, 0), "E")),
     Entry("location", CoordinateLit(Num(10, 0), "S", Num(20, 0), "W")),
     Entry("area", QuantityLit(Num(50, 0), "hectares"))}
LayoutEntries ==
    {Entry("panels", RefTimesLit("P1", Num(200, 0))),
     Entry("panels", RefTimesLit("P1", Num(0, 0))),
     Entry("tilt", AngleLit(Num(30, 0))),
     Entry("tracking", TrackingLit("fixed"))}
SimulateEntries ==
    {Entry("duration", DurationLit(Num(1, 0), "year")),
     Entry("outputs", OutputListLit(<<"generation">>))}
OptimizeEntries ==
    {Entry("objective", ObjectiveLit("maximize", "energy")),
     Entry("algorithm", StringLit("genetic"))}
SpecEntries ==
    {Entry("capacity", QuantityLit(Num(400, 0), "kW")),
     Entry("capacity", QuantityLit(Num(500, 0), "kW"))}

\* The bodies of an equipment section written on k lines.
RECURSIVE EquipmentBodies(_)
EquipmentBodies(k) ==
    IF k = 0 THEN {<<>>}
    ELSE UNION {{<<Item("panel", "P1", sp)>> \o rest :
                   sp \in [1..(j - 1) -> SpecEntries],
                   rest \in EquipmentBodies(k - j)} : j \in 1..k}

\* The blocks written on n lines, the header line included; `extra` are
\* further lines a layout block may hold.
BlocksOfSize(n, extra) ==
    {Statement("site", "Solar One", b) : b \in [1..(n - 1) -> SiteEntries]}
    \cup {Statement("layout", "L1", b) : b \in [1..(n - 1) -> LayoutEntries \cup extra]}
    \cup {Statement("simulate", "", b) : b \in [1..(n - 1) -> SimulateEntries]}
    \cup {Statement("optimize", "", b) : b \in [1..(n - 1) -> OptimizeEntries]}
    \cup {Statement("equipment", "", b) : b \in EquipmentBodies(n - 1)}

\* The sequences of blocks written on at most n lines.
RECURSIVE DocsUpTo(_, _)
DocsUpTo(n, extra) ==
    {<<>>} \cup UNION {{<<b>> \o d : b \in BlocksOfSize(s, extra),
                                    d \in DocsUpTo(n - s, extra)} : s \in 2..n}

\* The documents of at most MaxDocLines lines that match the grammar.
ValidDocs == DocsUpTo(MaxDocLines, {}) \ {<<>>}

InitTransform ==
    /\ doc \in ValidDocs
    /\ frames = <<Frame(start_rule(doc))>>
    /\ model = Model
    /\ last = NoCall
    /\ pc = "transform"
    /\ result = NoResult
    /\ lines = <<>>
    /\ pos = 1
    /\ indent_stack = <<0>>
    /\ output = <<>>

NextTransform ==
    \/ VisitToken
    \/ Descend
    \/ CallUserFunc

SpecTransform == InitTransform /\ [][NextTransform]_vars

\* ------------------------------------------------------ parse(dsl_text)
\* The text of a document: a header line per block, the block's lines one
\* level deeper, the lines of a spec block two levels deeper.
IndentWidth == 4

Body(form, key, val, colon) ==
    [form |-> form, key |-> key, val |-> val, colon |-> colon]

RECURSIVE Flatten(_)
Flatten(ss) == IF ss = <<>> THEN <<>> ELSE Head(ss) \o Flatten(Tail(ss))

EntryLines(sec, e) ==
    IF sec = "equipment"
    THEN <<Line(IndentWidth, Body("item", e.key, e.val, e.specs # <<>>))>>
         \o [k \in DOMAIN e.specs |->
               Line(2 * IndentWidth, Body("attr", e.specs[k].key, e.specs[k].val, FALSE))]
    ELSE <<Line(IndentWidth, Body("attr", e.key, e.val, FALSE))>>

StatementLines(st) ==
    <<Line(0, Body("header", st.sec,
                   IF st.sec \in {"site", "layout"} THEN StringLit(st.name) ELSE NoLit,
                   TRUE))>>
    \o Flatten([j \in DOMAIN st.body |-> EntryLines(st.sec, st.body[j])])

TextOf(d) == Flatten(MapSeq(StatementLines, d))

\* IndentPreprocessor(text).process() in one piece.
RECURSIVE PopWhile(_, _, _)
PopWhile(stack, out, indent) ==
    IF Len(stack) > 0 /\ indent < Top(stack)
    THEN PopWhile(Pop(stack), Append(out, DEDENT), indent)
    ELSE [stack |-> stack, out |-> out]

RECURSIVE CloseAll(_, _)
CloseAll(stack, out) ==
    IF Len(stack) > 1 THEN CloseAll(Pop(stack), Append(out, DEDENT))
    ELSE [stack |-> stack, out |-> out]

RECURSIVE ProcessFrom(_, _, _, _)
ProcessFrom(ls, i, stack, out) ==
    IF i > Len(ls) THEN CloseAll(stack, out)
    ELSE LET line == ls[i] IN
         IF IsBlank(line) THEN ProcessFrom(ls, i + 1, stack, Append(out, EmptyLine))
         ELSE IF IndentOf(line) > Top(stack)
         THEN LET pushed == Append(stack, IndentOf(line)) IN
              ProcessFrom(ls, i + 1, pushed,
                          Append(out, ReplaceLead(line, IndentMarkers(pushed))))
         ELSE IF IndentOf(line) < Top(stack)
         THEN LET p == PopWhile(stack, out, IndentOf(line)) IN
              ProcessFrom(ls, i + 1, p.stack, Append(p.out, Unchanged(line)))
         ELSE ProcessFrom(ls, i + 1, stack, Append(out, Unchanged(line)))

process(ls) == ProcessFrom(ls, 1, <<0>>, <<>>)

\* The processed text as the lexer meets it: block markers, the content of
\* a line, and the newline between two lines of '\n'.join(output).  The
\* spaces left in front of a line are whitespace the lexer ignores.
Chunk(t, b) == [t |-> t, body |-> b]
RECURSIVE Repeat(_, _)
Repeat(x, n) == IF n <= 0 THEN <<>> ELSE <<x>> \o Repeat(x, n - 1)
LineChunks(o) ==
    IF o.kind = "dedent" THEN <<Chunk("DEDENT", Blank)>>
    ELSE Repeat(Chunk("INDENT", Blank), o.indents)
         \o (IF o.body.form = "blank" THEN <<>> ELSE <<Chunk("BODY", o.body)>>)
Chunks(out) ==
    Flatten([k \in DOMAIN out |->
               LineChunks(out[k])
               \o (IF k < Len(out) THEN <<Chunk("NEWLINE", Blank)>> ELSE <<>>)])

\* Lark(GRAMMAR, parser='lalr'): the lexer is contextual.  In a parser state
\* it tries the terminals the state accepts and the ignored ones, ordered by
\* decreasing priority, then decreasing maximal width.  A newline is matched
\* by the ignored WS (common.WS, /[ \t\f\r\n]+/, of unbounded width) and by
\* _NL (/\r?\n/, of width 2), of equal priority.
NewlineTerminals == <<"WS", "_NL">>
ScanNewline(accepts) ==
    LET usable == accepts \cup {"WS"}
        first == CHOOSE k \in DOMAIN NewlineTerminals :
                    /\ NewlineTerminals[k] \in usable
                    /\ \A j \in 1..(k - 1) : NewlineTerminals[j] \notin usable
    IN NewlineTerminals[first]

SyntaxError(at) == [tag |-> "error", exc |-> "UnexpectedInput", rule |-> "", at |-> at]

\* The content of a line matches the header of a block, an attribute line
\* of a block, an equipment item, a line of a spec block.
HeaderMatches(b) ==
    /\ b.form = "header"
    /\ b.key \in Sections
    /\ b.colon
    /\ (b.key \in {"site", "layout"}) <=> (b.val.lit = "string")
LineMatches(sec, b) ==
    /\ b.form = IF sec = "equipment" THEN "item" ELSE "attr"
    /\ b.key \in DOMAIN AttrLit(sec)
    /\ b.val.lit = AttrLit(sec)[b.key]
SpecLineMatches(b) == b.form = "attr" /\ b.val.lit \in SpecLits

\* The states of the parser between two lines, and the terminal each takes.
PState(s, sec, first, n) == [s |-> s, sec |-> sec, first |-> first, n |-> n]
ExpectsNL(st) == st.s \in {"header_nl", "entry_nl", "item_colon_nl", "spec_nl"}
AfterNL(st) ==
    CASE st.s = "header_nl" -> [st EXCEPT !.s = "block_indent"]
      [] st.s = "entry_nl" -> [st EXCEPT !.s = "entry", !.first = FALSE]
      [] st.s = "item_colon_nl" -> [st EXCEPT !.s = "spec_indent"]
      [] st.s = "spec_nl" -> [st EXCEPT !.s = "spec", !.first = FALSE]

\* The parser's state after the chunk c, or "error".
Shift(st, c) ==
    CASE c.t = "INDENT" /\ st.s = "block_indent" ->
           [st EXCEPT !.s = "entry", !.first = TRUE]
      [] c.t = "INDENT" /\ st.s = "spec_indent" ->
           [st EXCEPT !.s = "spec", !.first = TRUE]
      [] c.t = "DEDENT" /\ st.s = "entry" /\ ~st.first ->
           PState("statement", "", TRUE, st.n + 1)
      [] c.t = "DEDENT" /\ st.s = "spec" /\ ~st.first ->
           [st EXCEPT !.s = "entry_nl"]
      [] c.t = "BODY" /\ st.s = "statement" /\ HeaderMatches(c.body) ->
           PState("header_nl", c.body.key, TRUE, st.n)
      [] c.t = "BODY" /\ st.s = "entry" /\ LineMatches(st.sec, c.body) ->
           [st EXCEPT !.s = IF c.body.colon THEN "item_colon_nl" ELSE "entry_nl"]
      [] c.t = "BODY" /\ st.s = "spec" /\ SpecLineMatches(c.body) ->
           [st EXCEPT !.s = "spec_nl"]
      [] OTHER -> PState("error", "", TRUE, st.n)

RECURSIVE ParseFrom(_, _, _)
ParseFrom(cs, i, st) ==
    IF i > Len(cs)
    THEN IF st.s = "statement" /\ st.n >= 1 THEN [tag |-> "accepted"]
         ELSE SyntaxError(i)
    ELSE IF cs[i].t = "NEWLINE"
    THEN IF ScanNewline(IF ExpectsNL(st) THEN {"_NL"} ELSE {}) = "_NL"
         THEN ParseFrom(cs, i + 1, AfterNL(st))
         ELSE ParseFrom(cs, i + 1, st)
    ELSE LET next == Shift(st, cs[i]) IN
         IF next.s = "error" THEN SyntaxError(i) ELSE ParseFrom(cs, i + 1, next)

\* parser.parse(processed_text): the tree of the document the text is of,
\* or the syntax error raised.
parser_parse(out, d) ==
    LET r == ParseFrom(Chunks(out), 1, PState("statement", "", TRUE, 0)) IN
    IF IsError(r) THEN r ELSE start_rule(d)

\* Documents that may also hold a layout line whose keyword the grammar
\* does not know.
UnknownLayoutLines == {Entry("azimuth", AngleLit(Num(180, 0)))}
ParseDocs == DocsUpTo(MaxDocLines, UnknownLayoutLines) \ {<<>>}

Init ==
    /\ doc \in ParseDocs
    /\ lines = TextOf(doc)
    /\ pos = 1
    /\ indent_stack = <<0>>
    /\ output = <<>>
    /\ pc = "preprocess"
    /\ result = NoResult
    /\ frames = <<>>
    /\ model = Model
    /\ last = NoCall

\* preprocessor = IndentPreprocessor(dsl_text); preprocessor.process()
Preprocess ==
    /\ pc = "preprocess"
    /\ LET p == process(lines) IN
       /\ indent_stack' = p.stack
       /\ output' = p.out
    /\ pos' = Len(lines) + 1
    /\ pc' = "lark"
    /\ UNCHANGED <<lines, result, trVars>>

\* A variant of the rest of parse() that swallows an exception and hands the
\* caller the transformer's model as far as it was filled.
parse_returning_partial(out, d) ==
    LET tree == parser_parse(out, d) IN
    IF IsError(tree) THEN [ret |-> Model, model |-> Model]
    ELSE LET r == TransformTree(tree, Model) IN
         IF IsError(r.ret) THEN [ret |-> r.model, model |-> r.model] ELSE r

\* The rest of parse() after preprocessing: parser.parse(processed_text),
\* transformer.transform(tree), return model.  An exception of either call
\* leaves parse() as it was raised.
parse_and_transform(out, d) ==
    LET tree == parser_parse(out, d) IN
    IF IsError(tree) THEN [ret |-> tree, model |-> Model]
    ELSE TransformTree(tree, Model)

ParseAndTransform ==
    /\ pc = "lark"
    /\ LET r == parse_and_transform(output, doc)
       IN /\ result' = r.ret
          /\ model' = r.model
          /\ pc' = IF IsError(r.ret) THEN "raised" ELSE "done"
    /\ UNCHANGED <<preVars, doc, frames, last>>

Next ==
    \/ Preprocess
    \/ ParseAndTransform

Spec == Init /\ [][Next]_vars

\* --------------------------------------------------------- properties
\* The traversal has ended: transform() returned or raised.
Final == pc \in {"done", "raised"}

\* The value of a numeric literal, in tenths.
Val(n) == 10 * n.whole + n.tenth

\* The value the transformer makes of the literal on the right of a colon.
LitValue(v) ==
    IF ValueTree(v).tag = "Token" THEN TokenCallback(ValueTree(v))
    ELSE transform(ValueTree(v))

\* While a block's line is being transformed: the frame of the statement, the
\* statement and the line the transformer is at.
StmtFrame == IF frames[1].node.data = "start" THEN 2 ELSE 1
CurStmt == IF frames[1].node.data = "start" THEN doc[Len(frames[1].done) + 1] ELSE doc[1]
InAttr(rule) ==
    /\ pc = "transform"
    /\ Len(frames) = StmtFrame + 2
    /\ TopFrame.node.data = rule
\* (site and layout blocks: the block's name is the first child)
CurEntry == CurStmt.body[Len(frames[StmtFrame + 1].done)]
Returned(rule, attr) ==
    /\ InAttr(attr)
    /\ last.rule = rule
    /\ TopFrame.done = <<last.ret>>

LastIdx(body, key) == Last({j \in DOMAIN body : body[j].key = key})
DupKeys(body) == \E i, j \in DOMAIN body : i < j /\ body[i].key = body[j].key
HasDuplicate(st) ==
    IF st.sec = "equipment" THEN \E j \in DOMAIN st.body : DupKeys(st.body[j].specs)
    ELSE DupKeys(st.body)
IsLastOf(i) == \A k \in DOMAIN doc : k > i => doc[k].sec # doc[i].sec
CountUpTo(sec, i) == Cardinality({k \in 1..i : doc[k].sec = sec})
RECURSIVE ItemsBefore(_)
ItemsBefore(i) ==
    IF i <= 1 THEN 0
    ELSE ItemsBefore(i - 1)
         + (IF doc[i - 1].sec = "equipment" THEN Len(doc[i - 1].body) ELSE 0)
RECURSIVE AllItems(_)
AllItems(i) ==
    IF i = 0 THEN <<>>
    ELSE AllItems(i - 1) \o (IF doc[i].sec = "equipment" THEN doc[i].body ELSE <<>>)
SlotOf(sec) ==
    CASE sec = "site" -> "site" [] sec = "simulate" -> "simulation"
      [] sec = "optimize" -> "optimization"

\* C1: for every document that matches the grammar, whatever its number of
\* top-level statements, the traversal's result is one Model value, never a
\* section record or an equipment list.
C1_ResultIsModel ==
    (Final /\ MatchesGrammar(doc)) => (pc = "done" /\ result.tag = "Model")

\* C2: the Coordinate made of `a deg H1, b deg H2` has latitude +a for N and
\* -a for S, longitude +b for E and -b for W.
C2_HemisphereSign ==
    Returned("coordinate", "site_attr") =>
        LET v == CurEntry.val IN
        /\ last.ret.tag = "Coordinate"
        /\ last.ret.latitude = Float(IF v.h1 = "N" THEN Val(v.n1) ELSE -Val(v.n1))
        /\ last.ret.longitude = Float(IF v.h2 = "E" THEN Val(v.n2) ELSE -Val(v.n2))

\* C3: in any block in which an attribute name occurs more than once, no
\* error is raised and the resulting record holds, for each name, the value
\* of its last occurrence.
C3_RecordHoldsLast(i) ==
    LET st == doc[i]
        holds(rec, body) ==
            \A j \in DOMAIN body :
                rec[body[j].key] = LitValue(body[LastIdx(body, body[j].key)].val)
    IN CASE st.sec = "equipment" ->
              \A j \in DOMAIN st.body :
                  LET specs == model.equipment[ItemsBefore(i) + j].specs IN
                  \A k \in DOMAIN st.body[j].specs :
                      /\ st.body[j].specs[k].key \in DOMAIN specs.map
                      /\ specs.map[st.body[j].specs[k].key]
                           = LitValue(st.body[j].specs[
                                 LastIdx(st.body[j].specs, st.body[j].specs[k].key)].val)
         [] st.sec = "layout" -> holds(model.layouts[CountUpTo("layout", i)], st.body)
         [] OTHER -> IsLastOf(i) => holds(model[SlotOf(st.sec)], st.body)
C3_LastOneWins ==
    Final => \A i \in DOMAIN doc :
                 HasDuplicate(doc[i]) => (pc = "done" /\ C3_RecordHoldsLast(i))

\* C4: the EquipmentRef made of `NAME * n` has name NAME and count n
\* converted to an integer, for every non-negative n.
C4_MultiplierCount ==
    (Returned("equipment_ref", "layout_attr") /\ CurEntry.val.counted) =>
        /\ last.ret.tag = "EquipmentRef"
        /\ last.ret.name = Str(CurEntry.val.name)
        /\ last.ret.count = IntVal(Val(CurEntry.val.n) \div 10)

\* C5: after parsing, Model.site, Model.simulation and Model.optimization
\* each hold the record built from the last block of their kind, and are
\* absent when the document declares no such block.
C5_LastBlockWins ==
    Final =>
        /\ pc = "done"
        /\ result.tag = "Model"
        /\ \A sec \in {"site", "simulate", "optimize"} :
             IF \A i \in DOMAIN doc : doc[i].sec # sec
             THEN result[SlotOf(sec)] = None_
             ELSE \E i \in DOMAIN doc :
                      /\ doc[i].sec = sec
                      /\ IsLastOf(i)
                      /\ result[SlotOf(sec)].tag \in {"Site", "Simulation", "Optimization"}
                      /\ result[SlotOf(sec)] = transform(SectionTree(doc[i]))

\* C6: after parsing, Model.equipment is the sequence of all the equipment
\* items declared, in declaration order, one entry per declaration.
C6_EquipmentInOrder ==
    Final =>
        LET items == AllItems(Len(doc)) IN
        /\ pc = "done"
        /\ result.tag = "Model"
        /\ Len(result.equipment) = Len(items)
        /\ \A k \in DOMAIN items :
             /\ result.equipment[k].tag = "Equipment"
             /\ result.equipment[k].type = Str(items[k].key)
             /\ result.equipment[k].name = Str(items[k].val.text)

\* C7: the Simulation of a simulate block without `outputs` has outputs
\* ["generation", "capacity_factor"]; with `outputs`, the declared list.
C7_OutputsDefault ==
    Final => \A i \in DOMAIN doc :
        (doc[i].sec = "simulate" /\ IsLastOf(i)) =>
            LET body == doc[i].body
                given == {j \in DOMAIN body : body[j].key = "outputs"}
            IN /\ model.simulation.tag = "Simulation"
               /\ model.simulation.outputs =
                    IF given = {} THEN List(<<Str("generation"), Str("capacity_factor")>>)
                    ELSE List(MapSeq(Str, body[Last(given)].val.names))

\* C8: a block whose attribute names are distinct yields the same record
\* whatever the order of its attribute lines.
Permuted(st) ==
    {[st EXCEPT !.body = [j \in DOMAIN st.body |-> st.body[f[j]]]] :
        f \in {g \in [DOMAIN st.body -> DOMAIN st.body] :
                 \A a, b \in DOMAIN st.body : a # b => g[a] # g[b]}}
C8_OrderIndependent ==
    (Final /\ Len(doc) = 1 /\ doc[1].sec # "equipment" /\ ~DupKeys(doc[1].body)) =>
        /\ pc = "done"
        /\ \A st \in Permuted(doc[1]) :
             LET other == transform(start_rule(<<st>>)) IN
             other.tag = result.tag /\ other = result


\* C10: every non-blank line whose leading-whitespace width exceeds the top
\* of the indentation stack pushes that width and is emitted prefixed with
\* exactly one block-start marker, whatever the nesting depth.
C10_OneMarkerPerIndent ==
    [][(InLoop /\ ~IsBlank(CurLine) /\ IndentOf(CurLine) > Top(indent_stack))
         => /\ indent_stack' = Append(indent_stack, IndentOf(CurLine))
            /\ output' = Append(output, ReplaceLead(CurLine, 1))]_vars

\* C9: a document whose layout block holds a line whose keyword is not an
\* attribute of layout makes parse fail with a syntax error; no Model is
\* returned.
HasUnknownLayoutLine(d) ==
    \E i \in DOMAIN d :
        /\ d[i].sec = "layout"
        /\ \E j \in DOMAIN d[i].body : d[i].body[j].key \notin DOMAIN AttrLit("layout")
C9_UnknownLayoutKeywordFails ==
    (Final /\ HasUnknownLayoutLine(doc)) =>
        /\ pc = "raised"
        /\ result.tag = "error"
        /\ result.exc = "UnexpectedInput"
C9_Witness ==
    /\ pc = "raised"
    /\ HasUnknownLayoutLine(doc)
    /\ result.tag = "error"
    /\ result.exc = "UnexpectedInput"

\* C11: a non-blank line narrower than the top of the stack pops every level
\* greater than its width, one block-end marker per pop, and only then is the
\* line emitted; the top is then <= the width, whether or not the width was
\* ever pushed, and the base level 0 stays on the stack.
InDedent ==
    /\ pc \in {"loop", "dedent"}
    /\ pos <= Len(lines)
    /\ ~IsBlank(CurLine)
    /\ pc = "dedent" \/ (Len(indent_stack) > 0 /\ IndentOf(CurLine) < Top(indent_stack))
C11_DedentPops ==
    [][InDedent =>
         /\ Len(indent_stack) >= 1
         /\ indent_stack[1] = 0
         /\ IF Top(indent_stack) > IndentOf(CurLine)
            THEN /\ Len(indent_stack) >= 2
                 /\ indent_stack' = Pop(indent_stack)
                 /\ output' = Append(output, DEDENT)
                 /\ pos' = pos
            ELSE /\ indent_stack' = indent_stack
                 /\ output' = Append(output, Unchanged(CurLine))
                 /\ pos' = pos + 1]_vars
\* A line of width 1 has just been emitted after a block-end marker, leaving
\* the base level on top: its width matched no pushed level.
C11_Witness ==
    /\ pc = "loop"
    /\ pos > 1
    /\ ~IsBlank(lines[pos - 1])
    /\ Len(output) >= 2
    /\ output[Len(output)] = Unchanged(lines[pos - 1])
    /\ output[Len(output) - 1] = DEDENT
    /\ Top(indent_stack) < IndentOf(lines[pos - 1])

\* C12: a blank or whitespace-only line is emitted as it is: the output line
\* equals the input line.
C12_BlankUnchanged ==
    [][(InLoop /\ IsBlank(CurLine)) =>
         output' = Append(output, Unchanged(CurLine))]_vars

\* C13: the indentation stack is never empty, its bottom is 0 and it is
\* strictly increasing from bottom to top; when process() has returned the
\* stack is exactly [0].
StrictlyIncreasing(stack) ==
    \A i \in 1..(Len(stack) - 1) : stack[i] < stack[i + 1]
C13_StackInvariant ==
    /\ Len(indent_stack) >= 1
    /\ indent_stack[1] = 0
    /\ StrictlyIncreasing(indent_stack)
    /\ pc = "done" => indent_stack = <<0>>
\* process() has returned after opening two nested blocks and closing them.
C13_Witness ==
    /\ pc = "done"
    /\ indent_stack = <<0>>
    /\ \E i \in DOMAIN output : output[i].kind = "line" /\ output[i].indents >= 2
    /\ Len(output) >= 2
    /\ output[Len(output)] = DEDENT
    /\ output[Len(output) - 1] = DEDENT

====
